---- MODULE Spec2Model ----
(***************************************************************************)
(* Model of src/16/main.cpp: a grid maze is loaded from text, solved by a  *)
(* best-first search whose per-tile search state lives in the tiles, the   *)
(* path found is marked on the tiles and the grid is rendered.             *)
(*                                                                         *)
(* Tiles are addressed by their index y * size.x + x, as in maze_t::idx.   *)
(* The frontier is the array of the std::priority_queue; push and pop are  *)
(* the sift-up and sift-down of the GNU libstdc++ heap algorithms, so that *)
(* an entry whose tile is relaxed while it waits in the array keeps its    *)
(* slot, exactly as in the program.                                        *)
(***************************************************************************)
EXTENDS Integers, Sequences, FiniteSets

VARIABLES lines, size, map, search_count, path_cost, start_idx, end_idx,
          pq, curr_idx, output, pc, run, first

vars == <<lines, size, map, search_count, path_cost, start_idx, end_idx,
          pq, curr_idx, output, pc, run, first>>

(* Bounds of the input files explored: at most MaxWidth x MaxHeight tiles  *)
(* and MaxWalls walls, and the wider files of SpecWide.                    *)
MaxWidth == 3
MaxHeight == 2
MaxWalls == 1
WideWidth == 4
WideHeight == 3
WideWalls == 1

(* enum struct dir_e : u8 { n, s, e, w, none, path = 0xF0 } *)
dir_n == 0
dir_s == 1
dir_e == 2
dir_w == 3
dir_none == 4
dir_path == 240

(* state_t::moves *)
MoveX(d) == IF d = dir_e THEN 1 ELSE IF d = dir_w THEN -1 ELSE 0
MoveY(d) == IF d = dir_s THEN 1 ELSE IF d = dir_n THEN -1 ELSE 0

Abs(v) == IF v < 0 THEN -v ELSE v

(* maze_t::idx and tile_t::pos (pos is set once, at load, to the tile's    *)
(* coordinates).                                                           *)
Idx(sz, x, y) == y * sz.x + x
PosX(sz, i) == i % sz.x
PosY(sz, i) == i \div sz.x
Tiles(sz) == 0 .. (sz.x * sz.y - 1)

(* maze_t::char_to_tile *)
char_to_tile(c) ==
    CASE c = "." -> "empty"
      [] c = "#" -> "wall"
      [] c = "S" -> "start"
      [] c = "E" -> "end"
      [] OTHER -> "invalid"

(* The u8 bit operations of tile_to_char and of the path marking, with the *)
(* constant operand dir_e::path = 0xF0: only the high nibble is touched.   *)
OrPath(d) == dir_path + (d % 16)
XorPath(d) == (15 - (d \div 16)) * 16 + (d % 16)
AndPath(d) == (d \div 16) * 16

(* The flag taken out with & where ^ is meant. *)
MaskedDirAnd(d) == AndPath(d)

(* The direction tile_to_char switches on. *)
MaskedDir(d) == XorPath(d)

(* maze_t::tile_to_char *)
tile_to_char(t) ==
    LET masked_dir == MaskedDir(t.dir)
        is_path == AndPath(t.dir) > 0
    IN  IF is_path /\ t.type # "start" /\ t.type # "end"
        THEN CASE masked_dir = dir_n -> "^"
               [] masked_dir = dir_s -> "v"
               [] masked_dir = dir_e -> ">"
               [] masked_dir = dir_w -> "<"
               [] OTHER -> "?"
        ELSE CASE t.type = "empty" -> "."
               [] t.type = "wall" -> "#"
               [] t.type = "start" -> "S"
               [] t.type = "end" -> "E"
               [] OTHER -> "?"

(* state_t::f_cost *)
f_cost(t) == t.g_cost + t.h_cost

(* operator> with the tie broken the other way. *)
GreaterLargerH(a, b) ==
    IF f_cost(a) = f_cost(b)
    THEN a.h_cost < b.h_cost
    ELSE f_cost(a) > f_cost(b)

(* state_t::operator> *)
Greater(a, b) ==
    IF f_cost(a) = f_cost(b)
    THEN a.h_cost > b.h_cost
    ELSE f_cost(a) > f_cost(b)

(* priority_fn, the comparison of the frontier: it reads the tiles' state  *)
(* at the time of the call.                                                *)
priority_fn(m, a, b) == Greater(m[a], m[b])

(* maze_t::heuristic for the tile at index a with facing adir and the tile *)
(* at index b.                                                             *)
heuristic(sz, a, adir, b) ==
    LET ax == PosX(sz, a)
        ay == PosY(sz, a)
        bx == PosX(sz, b)
        by == PosY(sz, b)
        manhattan_dist == Abs(ax - bx) + Abs(ay - by)
        is_straight_path == (ax = bx \/ ay = by)
        desired_dir == IF ax < bx THEN dir_e
                       ELSE IF ax > bx THEN dir_w
                       ELSE IF ay < by THEN dir_s
                       ELSE dir_n
        rotation_cost == IF adir # desired_dir THEN 1000 ELSE 0
    IN  manhattan_dist + rotation_cost
            + (IF is_straight_path THEN 0 ELSE 1000)

(***************************************************************************)
(* The frontier: std::priority_queue<int, std::vector<int>, priority_fn>.  *)
(* Array slot k (from 0) is element k + 1 of the sequence.                 *)
(***************************************************************************)
RECURSIVE PushHeap(_, _, _, _)
(* std::__push_heap with topIndex 0: move the hole up while its parent is  *)
(* ordered after the value.                                                *)
PushHeap(m, q, holeIndex, value) ==
    LET parent == (holeIndex - 1) \div 2
    IN  IF holeIndex > 0 /\ priority_fn(m, q[parent + 1], value)
        THEN PushHeap(m, [q EXCEPT ![holeIndex + 1] = q[parent + 1]], parent, value)
        ELSE [q EXCEPT ![holeIndex + 1] = value]

(* pq.push(v) *)
Push(m, q, v) == PushHeap(m, Append(q, v), Len(q), v)

RECURSIVE SiftDown(_, _, _, _)
(* The loop of std::__adjust_heap: the hole moves down to a leaf, each     *)
(* time to the child that is not ordered after its sibling. Gives the      *)
(* array and the final hole.                                               *)
SiftDown(m, q, secondChild, len) ==
    IF secondChild < (len - 1) \div 2
    THEN LET right == 2 * (secondChild + 1)
             child == IF priority_fn(m, q[right + 1], q[right]) THEN right - 1 ELSE right
         IN  SiftDown(m, [q EXCEPT ![secondChild + 1] = q[child + 1]], child, len)
    ELSE IF len % 2 = 0 /\ secondChild = (len - 2) \div 2
         THEN LET child == 2 * (secondChild + 1) - 1
              IN  [q |-> [q EXCEPT ![secondChild + 1] = q[child + 1]], hole |-> child]
         ELSE [q |-> q, hole |-> secondChild]

(* pq.pop(): std::pop_heap moves the last element into the hole left by    *)
(* the top (std::__adjust_heap), then the array loses its last slot.       *)
Pop(m, q) ==
    IF Len(q) <= 1
    THEN << >>
    ELSE LET len == Len(q) - 1
             value == q[Len(q)]
             down == SiftDown(m, SubSeq(q, 1, len), 0, len)
         IN  PushHeap(m, down.q, down.hole, value)

(* pq.top() *)
Top(q) == q[1]

(***************************************************************************)
(* Input files: util::read_file gives the non-empty lines of the file.     *)
(***************************************************************************)
RECURSIVE SubsetsUpTo(_, _)
SubsetsUpTo(S, k) ==
    IF k = 0
    THEN {{}}
    ELSE LET smaller == SubsetsUpTo(S, k - 1)
         IN  smaller \cup {T \cup {x} : T \in smaller, x \in S}

(* The text of a w x h grid whose character at index i is f[i]. *)
Text(w, h, f) == [y \in 1 .. h |-> [x \in 1 .. w |-> f[(y - 1) * w + (x - 1)]]]

(* The file of w x h tiles with S at index s, E at index e, a wall at each *)
(* index of ws and '.' elsewhere, in which the character at index k is     *)
(* then overwritten by c.                                                  *)
File(w, h, s, e, ws, k, c) ==
    Text(w, h, [i \in 0 .. (w * h - 1) |->
                  IF i = k THEN c
                  ELSE IF i = s THEN "S"
                  ELSE IF i = e THEN "E"
                  ELSE IF i \in ws THEN "#" ELSE "."])

(* f is a file of at most W x H tiles with one S, one E and at most K      *)
(* walls.                                                                  *)
IsValidFile(f, W, H, K) ==
    \E w \in 1 .. W, h \in 1 .. H :
        \E s \in 0 .. (w * h - 1), e \in 0 .. (w * h - 1) :
            /\ s # e
            /\ \E ws \in SubsetsUpTo((0 .. (w * h - 1)) \ {s, e}, K) :
                  f = File(w, h, s, e, ws, s, "S")

(* The indices one orthogonal step away from index i in a w x h grid. *)
Around(w, h, i) ==
    {j \in 0 .. (w * h - 1) :
        \/ (i \div w = j \div w /\ (j = i + 1 \/ j = i - 1))
        \/ (i % w = j % w /\ (j = i + w \/ j = i - w))}

(* f is a file of at most W x H tiles with one S and one E, one of them    *)
(* walled off: a wall on every tile around it, the other of the two apart. *)
IsWalledOffFile(f, W, H) ==
    \E w \in 1 .. W, h \in 1 .. H :
        \E s \in 0 .. (w * h - 1), e \in 0 .. (w * h - 1) :
            /\ s # e
            /\ \E c \in {s, e} : f = File(w, h, s, e, Around(w, h, c) \ {s, e}, s, "S")

(* f is a file of at most W x H tiles without walls in which one character *)
(* of a file with one S and one E is overwritten: files with two S, two E, *)
(* no S or no E among them.                                                *)
IsMisconfiguredFile(f, W, H) ==
    \E w \in 1 .. W, h \in 1 .. H :
        \E s \in 0 .. (w * h - 1), e \in 0 .. (w * h - 1) :
            /\ s # e
            /\ \E k \in 0 .. (w * h - 1), c \in {"S", "E", "."} :
                  f = File(w, h, s, e, {}, k, c)

(* The character of tile i of a file, and how often a character occurs. *)
CharAt(f, i) == f[(i \div Len(f[1])) + 1][(i % Len(f[1])) + 1]
CharCount(f, c) ==
    Cardinality({i \in 0 .. (Len(f) * Len(f[1]) - 1) : CharAt(f, i) = c})

(* Files load() rejects: rows of different lengths, a foreign character. *)
MalformedFiles ==
    { << <<"S", ".", "E">>, <<".", ".">> >>,
      << <<"S", "x", "E">> >> }

(* maze_t{}: the members' default initialisers; map is the null pointer.  *)
(* The file is any of at most W x H tiles and at most K walls, or one with *)
(* the start or the end walled off, or a misconfigured or malformed one.   *)
InitWith(W, H, K) ==
    /\ \/ IsValidFile(lines, W, H, K)
       \/ IsWalledOffFile(lines, W, H)
       \/ IsMisconfiguredFile(lines, W, H)
       \/ lines \in MalformedFiles
    /\ size = [x |-> 0, y |-> 0]
    /\ map = << >>
    /\ search_count = 0
    /\ path_cost = 0
    /\ start_idx = -1
    /\ end_idx = -1
    /\ pq = << >>
    /\ curr_idx = -1
    /\ output = << >>
    /\ pc = "start"
    /\ run = 1
    /\ first = [path_cost |-> 0, search_count |-> 0, output |-> << >>]

(***************************************************************************)
(* maze_t::load                                                            *)
(***************************************************************************)
(* tile_t{ char_to_tile(c), pos, dir_e::none, 0, 0 }; p_idx keeps its      *)
(* default initialiser.                                                    *)
NewTile(c) ==
    [type |-> char_to_tile(c), dir |-> dir_none, g_cost |-> 0, h_cost |-> 0, p_idx |-> 0]

(* tile_t{}: what new tile_t[n] holds before load assigns the tile. *)
DefaultTile ==
    [type |-> "empty", dir |-> dir_none, g_cost |-> 0, h_cost |-> 0, p_idx |-> 0]

Load ==
    /\ pc = "start"
    /\ LET sz == [x |-> Len(lines[1]), y |-> Len(lines)]
           ragged == \E y \in 1 .. Len(lines) : Len(lines[y]) # sz.x
           invalid == {i \in Tiles(sz) : char_to_tile(CharAt(lines, i)) = "invalid"}
           stop == CHOOSE i \in invalid : \A j \in invalid : i <= j
       IN  /\ size' = sz
           /\ IF ragged
              THEN /\ map' = map
                   /\ pc' = "failed"
              ELSE IF invalid # {}
              THEN /\ map' = [i \in Tiles(sz) |->
                                IF i <= stop THEN NewTile(CharAt(lines, i)) ELSE DefaultTile]
                   /\ pc' = "failed"
              ELSE /\ map' = [i \in Tiles(sz) |-> NewTile(CharAt(lines, i))]
                   /\ pc' = "loaded"
    /\ UNCHANGED <<lines, search_count, path_cost, start_idx, end_idx, pq,
                   curr_idx, output, run, first>>

(***************************************************************************)
(* maze_t::solve                                                           *)
(***************************************************************************)
(* A reset that forgets g_cost. *)
resetKeepsCost(t) == [t EXCEPT !.dir = dir_none, !.h_cost = 0, !.p_idx = 0]

(* state_t::reset *)
reset(t) == [t EXCEPT !.dir = dir_none, !.g_cost = 0, !.h_cost = 0, !.p_idx = 0]

(* The scan of solve(): the index the loop leaves in start_idx (end_idx)   *)
(* is the last tile of that type, -1 when there is none.                   *)
Locate(m, sz, kind) ==
    LET found == {i \in Tiles(sz) : m[i].type = kind}
    IN  IF found = {} THEN -1
        ELSE CHOOSE i \in found : \A j \in found : j <= i

(* The test with && where || is meant. *)
MissingBoth(s, e) == s = -1 /\ e = -1

(* start_idx == -1 || end_idx == -1 *)
Missing(s, e) == s = -1 \/ e = -1

(* solve() up to the throw: counters and tile states are reset, then the   *)
(* exception leaves solve() and main() returns 1.                          *)
SolveThrow ==
    /\ pc = "loaded"
    /\ Missing(Locate(map, size, "start"), Locate(map, size, "end"))
    /\ search_count' = 1
    /\ path_cost' = -1
    /\ map' = [i \in Tiles(size) |-> reset(map[i])]
    /\ start_idx' = Locate(map, size, "start")
    /\ end_idx' = Locate(map, size, "end")
    /\ pc' = "failed"
    /\ UNCHANGED <<lines, size, pq, curr_idx, output, run, first>>

(* solve() up to the first test of the search loop: reset, locate, face    *)
(* the start tile east, push it.                                           *)
SolveBegin ==
    /\ pc = "loaded"
    /\ ~Missing(Locate(map, size, "start"), Locate(map, size, "end"))
    /\ search_count' = 1
    /\ path_cost' = -1
    /\ start_idx' = Locate(map, size, "start")
    /\ end_idx' = Locate(map, size, "end")
    /\ map' = [i \in Tiles(size) |->
                 IF i = start_idx' THEN [reset(map[i]) EXCEPT !.dir = dir_e]
                 ELSE reset(map[i])]
    /\ pq' = Push(map', << >>, start_idx')
    /\ curr_idx' = -1
    /\ pc' = "search"
    /\ UNCHANGED <<lines, size, output, run, first>>

(* n.x < 0 || n.x >= size.x || n.y < 0 || n.y >= size.y *)
OutOfBounds(sz, x, y) == x < 0 \/ x >= sz.x \/ y < 0 \/ y >= sz.y

(* The wall test left out. *)
IsWallNever(t) == FALSE

(* neighbor.type == tile_e::wall *)
IsWall(t) == t.type = "wall"

(* A turn charged without its step. *)
MoveCostTurnOnly(facing, move_dir) == IF facing # move_dir THEN 1000 ELSE 1

(* current.state.dir != move_dir ? 1001 : 1 *)
MoveCost(facing, move_dir) == IF facing # move_dir THEN 1001 ELSE 1

(* The comparison with <= where < is meant. *)
CheaperOrEqual(g_cost, neighbor) == neighbor.g_cost = 0 \/ g_cost <= neighbor.g_cost

(* neighbor.state.g_cost == 0 || g_cost < neighbor.state.g_cost *)
Cheaper(g_cost, neighbor) == neighbor.g_cost = 0 \/ g_cost < neighbor.g_cost

(* One pass of the loop over move_dir for the tile current_idx: st holds   *)
(* the tiles, the frontier and the search count as the pass finds them.    *)
Explore(st, sz, current_idx, goal, move_dir) ==
    LET nx == PosX(sz, current_idx) + MoveX(move_dir)
        ny == PosY(sz, current_idx) + MoveY(move_dir)
        neighbor_idx == Idx(sz, nx, ny)
        g_cost == st.map[current_idx].g_cost
                    + MoveCost(st.map[current_idx].dir, move_dir)
    IN  IF OutOfBounds(sz, nx, ny) THEN st
        ELSE IF IsWall(st.map[neighbor_idx]) THEN st
        ELSE IF Cheaper(g_cost, st.map[neighbor_idx])
        THEN LET m2 == [st.map EXCEPT ![neighbor_idx] =
                          [@ EXCEPT !.dir = move_dir,
                                    !.g_cost = g_cost,
                                    !.h_cost = heuristic(sz, neighbor_idx, move_dir, goal),
                                    !.p_idx = current_idx]]
             IN  [map |-> m2,
                  pq |-> Push(m2, st.pq, neighbor_idx),
                  search_count |-> st.search_count + 1]
        ELSE st

(* An iteration of the search loop that pops a tile other than the end:    *)
(* the four moves are tried in the order n, s, e, w.                       *)
Expand ==
    /\ pc = "search"
    /\ pq # << >>
    /\ Top(pq) # end_idx
    /\ LET current_idx == Top(pq)
           st0 == [map |-> map, pq |-> Pop(map, pq), search_count |-> search_count]
           st1 == Explore(st0, size, current_idx, end_idx, dir_n)
           st2 == Explore(st1, size, current_idx, end_idx, dir_s)
           st3 == Explore(st2, size, current_idx, end_idx, dir_e)
           st4 == Explore(st3, size, current_idx, end_idx, dir_w)
       IN  /\ map' = st4.map
           /\ pq' = st4.pq
           /\ search_count' = st4.search_count
    /\ UNCHANGED <<lines, size, path_cost, start_idx, end_idx, curr_idx,
                   output, pc, run, first>>

(* The test after the search loop: without a path the message goes to      *)
(* std::cerr, with one the marking starts at the end tile.                 *)
AfterSearch(cost) == IF cost = -1 THEN "done" ELSE "mark"

(* The iteration that pops the end tile: its g_cost is the path cost, the  *)
(* loop is left by the break.                                              *)
ReachEnd ==
    /\ pc = "search"
    /\ pq # << >>
    /\ Top(pq) = end_idx
    /\ pq' = Pop(map, pq)
    /\ path_cost' = map[end_idx].g_cost
    /\ pc' = AfterSearch(path_cost')
    /\ curr_idx' = IF pc' = "mark" THEN end_idx ELSE curr_idx
    /\ UNCHANGED <<lines, size, map, search_count, start_idx, end_idx,
                   output, run, first>>

(* The search loop ends because the frontier is empty. *)
NoPath ==
    /\ pc = "search"
    /\ pq = << >>
    /\ pc' = AfterSearch(path_cost)
    /\ curr_idx' = IF pc' = "mark" THEN end_idx ELSE curr_idx
    /\ UNCHANGED <<lines, size, map, search_count, path_cost, start_idx,
                   end_idx, pq, output, run, first>>

(* The step to the parent left out. *)
ParentSelf(m, i) == i

(* map[curr_idx].state.p_idx *)
Parent(m, i) == m[i].p_idx

(* One iteration of the marking loop: flag the tile, step to its parent,   *)
(* stop on the start tile.                                                 *)
Mark ==
    /\ pc = "mark"
    /\ map' = [map EXCEPT ![curr_idx].dir = OrPath(@)]
    /\ curr_idx' = Parent(map', curr_idx)
    /\ pc' = IF curr_idx' = start_idx THEN "done" ELSE "mark"
    /\ UNCHANGED <<lines, size, search_count, path_cost, start_idx, end_idx,
                   pq, output, run, first>>

(***************************************************************************)
(* maze_t::print: the grid part of the text written to the output file.    *)
(***************************************************************************)
Render(m, sz) ==
    [y \in 1 .. sz.y |-> [x \in 1 .. sz.x |-> tile_to_char(m[Idx(sz, x - 1, y - 1)])]]

print ==
    /\ pc = "done"
    /\ output' = Render(map, size)
    /\ pc' = "printed"
    /\ UNCHANGED <<lines, size, map, search_count, path_cost, start_idx,
                   end_idx, pq, curr_idx, run, first>>

(* solve() is called again on the maze as the first run left it; what the  *)
(* first run reported is kept for comparison.                              *)
SolveAgain ==
    /\ pc = "printed"
    /\ run = 1
    /\ first' = [path_cost |-> path_cost, search_count |-> search_count,
                 output |-> output]
    /\ run' = 2
    /\ pc' = "loaded"
    /\ UNCHANGED <<lines, size, map, search_count, path_cost, start_idx,
                   end_idx, pq, curr_idx, output>>

(* main(): load, solve, print; then solve and print once more. *)
Next ==
    \/ Load
    \/ SolveThrow
    \/ SolveBegin
    \/ Expand
    \/ ReachEnd
    \/ NoPath
    \/ Mark
    \/ print
    \/ SolveAgain

Init == InitWith(MaxWidth, MaxHeight, MaxWalls)

Spec == Init /\ [][Next]_vars

(* The same on files of up to WideWidth x WideHeight tiles. *)
InitWide == InitWith(WideWidth, WideHeight, WideWalls)

SpecWide == InitWide /\ [][Next]_vars

(***************************************************************************)
(* What the claims speak of.                                               *)
(***************************************************************************)
(* The file is one load() accepts. *)
WellFormed == lines \notin MalformedFiles

(* One S and one E in the file. *)
ValidMaze == WellFormed /\ CharCount(lines, "S") = 1 /\ CharCount(lines, "E") = 1

(* solve() has returned. *)
Solved == pc \in {"done", "printed"}

(* The tiles in the frontier. *)
Frontier == {pq[k] : k \in 1 .. Len(pq)}

(* The tiles one orthogonal step away from tile i that are not walls. *)
Steps(i) ==
    {j \in Tiles(size) :
        /\ map[j].type # "wall"
        /\ Abs(PosX(size, i) - PosX(size, j)) + Abs(PosY(size, i) - PosY(size, j)) = 1}

RECURSIVE Closure(_)
Closure(seen) ==
    LET more == seen \cup UNION {Steps(i) : i \in seen}
    IN  IF more = seen THEN seen ELSE Closure(more)

(* Some sequence of orthogonal steps over non-wall tiles leads from the    *)
(* start tile to the end tile.                                             *)
Reachable == end_idx \in Closure({start_idx})

Facings == {dir_n, dir_s, dir_e, dir_w}

(* Above the cost of every walk that visits no tile twice in one facing. *)
Unreached == 1001 * 4 * (size.x * size.y + 1)

(* The cheapest walks: Best[i, f] is the least cost of a walk from the     *)
(* start tile, facing east, that arrives at tile i with its last step in   *)
(* direction f (at the start tile also of the empty walk, facing east),    *)
(* found by relaxing every step until nothing changes.                     *)
RECURSIVE Settle(_)
Settle(d) ==
    LET from(i, f) == Idx(size, PosX(size, i) - MoveX(f), PosY(size, i) - MoveY(f))
        arrive(i, f) ==
            IF \/ map[i].type = "wall"
               \/ OutOfBounds(size, PosX(size, i) - MoveX(f), PosY(size, i) - MoveY(f))
               \/ map[from(i, f)].type = "wall"
            THEN {}
            ELSE {d[from(i, f), f0] + 1 + (IF f0 # f THEN 1000 ELSE 0) :
                    f0 \in {g \in Facings : d[from(i, f), g] < Unreached}}
        least(S, v) == IF \E c \in S : c < v
                       THEN CHOOSE c \in S : \A c2 \in S : c <= c2
                       ELSE v
        d2 == [i \in Tiles(size), f \in Facings |-> least(arrive(i, f), d[i, f])]
    IN  IF d2 = d THEN d ELSE Settle(d2)

Best ==
    Settle([i \in Tiles(size), f \in Facings |->
              IF i = start_idx /\ f = dir_e THEN 0 ELSE Unreached])

(* The least cost of a walk from the start tile to the end tile. *)
Optimum ==
    LET b == Best
        costs == {b[end_idx, f] : f \in Facings}
    IN  CHOOSE c \in costs : \A c2 \in costs : c <= c2

(* The glyphs of the path. *)
Glyphs == {"^", "v", ">", "<"}

(* A rendered grid holds a path glyph. *)
HasGlyph(grid) == \E y \in 1 .. Len(grid) : \E x \in 1 .. Len(grid[y]) : grid[y][x] \in Glyphs

(* A rendered grid with every path glyph replaced by '.'. *)
Strip(grid) ==
    [y \in 1 .. Len(grid) |->
        [x \in 1 .. Len(grid[y]) |-> IF grid[y][x] \in Glyphs THEN "." ELSE grid[y][x]]]

(* The end lies on the start's row to the east, no wall between them. *)
StraightEast ==
    /\ PosY(size, start_idx) = PosY(size, end_idx)
    /\ PosX(size, start_idx) < PosX(size, end_idx)
    /\ \A i \in start_idx .. end_idx : map[i].type # "wall"

(* The tiles of column x between rows y1 and y2 hold no wall. *)
ColumnClear(x, y1, y2) ==
    \A y \in 0 .. (size.y - 1) :
        ((y1 <= y /\ y <= y2) \/ (y2 <= y /\ y <= y1)) => map[Idx(size, x, y)].type # "wall"

(* A route with exactly one 90-degree turn leads from the start to the     *)
(* end: the turn is made on the start tile (the end is straight north or   *)
(* south), or after a leg east. No route without a turn exists then.       *)
OneTurn ==
    LET sx == PosX(size, start_idx)
        sy == PosY(size, start_idx)
        ex == PosX(size, end_idx)
        ey == PosY(size, end_idx)
    IN  /\ sy # ey
        /\ sx <= ex
        /\ \A x \in sx .. ex : map[Idx(size, x, sy)].type # "wall"
        /\ ColumnClear(ex, sy, ey)

Manhattan ==
    Abs(PosX(size, start_idx) - PosX(size, end_idx))
        + Abs(PosY(size, start_idx) - PosY(size, end_idx))

(* The facing stored on a tile, without the on-path flag. *)
Facing(i) == map[i].dir % 16

(* The cost of the marked path up to tile i and the facing on arrival:     *)
(* the parent chain is walked from the start tile, facing east, each step  *)
(* in the direction stored on the tile it enters.                          *)
RECURSIVE Walk(_)
Walk(i) ==
    IF i = start_idx
    THEN [cost |-> 0, facing |-> dir_e]
    ELSE LET before == Walk(map[i].p_idx)
         IN  [cost |-> before.cost + 1 + (IF Facing(i) # before.facing THEN 1000 ELSE 0),
              facing |-> Facing(i)]

(***************************************************************************)
(* The claims.                                                             *)
(***************************************************************************)

(* C1: for every valid maze whose end is reachable, the path_cost solve()  *)
(* reports is the least cost of a walk from the start, facing east, to the *)
(* end, at 1 per step and 1000 more per step that changes the facing.      *)
C1_ReportsMinimum ==
    (Solved /\ ValidMaze /\ Reachable) => path_cost = Optimum

(* C2: when no sequence of steps over non-wall tiles leads from start to   *)
(* end, solve() ends with the frontier empty, path_cost -1 and no tile     *)
(* flagged on-path, and the rendered grid holds no glyph; when the end is  *)
(* reachable, solve() ends with path_cost other than -1.                   *)
C2_NoRoute ==
    Solved =>
        IF Reachable
        THEN path_cost # -1
        ELSE /\ pq = << >>
             /\ path_cost = -1
             /\ \A i \in Tiles(size) : AndPath(map[i].dir) = 0
             /\ pc = "printed" => ~HasGlyph(output)

C2_Witness == pc = "printed" /\ ~Reachable /\ search_count > 1

(* C3, as claimed: solve() goes on to search only a grid with exactly one  *)
(* start tile and exactly one end tile.                                    *)
C3_ExactlyOne ==
    (WellFormed /\ pc \in {"search", "mark", "done", "printed"}) =>
        (CharCount(lines, "S") = 1 /\ CharCount(lines, "E") = 1)

(* C3, amended: load() accepts every well-formed grid; solve() fails with  *)
(* the error, before any tile is pushed or expanded, exactly when the grid *)
(* has no start tile or no end tile; otherwise it searches from the last   *)
(* start tile to the last end tile of the scan, also with several of them. *)
C3_AtLeastOne ==
    (WellFormed /\ pc # "start") =>
        /\ map = [i \in Tiles(size) |-> [map[i] EXCEPT !.type = char_to_tile(CharAt(lines, i))]]
        /\ pc # "loaded" =>
            IF CharCount(lines, "S") = 0 \/ CharCount(lines, "E") = 0
            THEN /\ pc = "failed"
                 /\ pq = << >>
                 /\ search_count = 1
                 /\ \A i \in Tiles(size) : map[i].g_cost = 0 /\ map[i].dir = dir_none
            ELSE /\ pc # "failed"
                 /\ CharAt(lines, start_idx) = "S"
                 /\ CharAt(lines, end_idx) = "E"
                 /\ \A i \in Tiles(size) :
                        /\ CharAt(lines, i) = "S" => i <= start_idx
                        /\ CharAt(lines, i) = "E" => i <= end_idx

C3_Witness ==
    /\ WellFormed
    /\ pc = "failed"
    /\ CharCount(lines, "E") = 0
    /\ CharCount(lines, "S") = 2
    /\ search_count = 1

(* C4: for every valid maze and either outcome of solve(), a wall renders  *)
(* as '#', the start as 'S', the end as 'E', every other tile as '.' or a  *)
(* direction glyph, never '?', and the rendered grid with each glyph       *)
(* replaced by '.' is the input grid.                                      *)
C4_RoundTrip ==
    (pc = "printed" /\ ValidMaze) =>
        /\ \A y \in 1 .. size.y : \A x \in 1 .. size.x :
              IF lines[y][x] = "."
              THEN output[y][x] \in Glyphs \cup {"."}
              ELSE output[y][x] = lines[y][x]
        /\ Strip(output) = lines

C4_Witness == pc = "printed" /\ ValidMaze /\ HasGlyph(output)

(* C5: a second solve() on the grid as the first run left it reports the   *)
(* same path_cost and search_count and renders the same grid.              *)
C5_SecondRunSame ==
    (pc = "printed" /\ run = 2) =>
        /\ path_cost = first.path_cost
        /\ search_count = first.search_count
        /\ output = first.output

C5_Witness ==
    /\ pc = "printed"
    /\ run = 2
    /\ path_cost > 1000
    /\ HasGlyph(first.output)

(* C6: with the end straight east of the start and no wall between them,   *)
(* path_cost is the Manhattan distance; with a route of exactly one        *)
(* 90-degree turn, path_cost is the number of steps plus 1000.             *)
C6_BoundaryCosts ==
    (Solved /\ ValidMaze) =>
        /\ StraightEast => path_cost = Manhattan
        /\ OneTurn => path_cost = Manhattan + 1000

C6_Witness ==
    /\ Solved
    /\ ValidMaze
    /\ OneTurn
    /\ PosX(size, start_idx) < PosX(size, end_idx)
    /\ path_cost = Manhattan + 1000

(* What a tile can still lose of its g_cost: a tile not yet reached has    *)
(* g_cost 0 and counts as above every cost a path can have.                *)
Ceiling == 1001 * (size.x * size.y + 1)
Potential(t) == IF t.g_cost = 0 THEN Ceiling ELSE t.g_cost

RECURSIVE SumPotential(_)
SumPotential(n) == IF n = 0 THEN 0 ELSE Potential(map[n - 1]) + SumPotential(n - 1)

(* The measure of the search loop: every push lowers the potential of the  *)
(* tile pushed, every iteration pops one entry.                            *)
SearchRank == 2 * SumPotential(size.x * size.y) + Len(pq)

(* C7: solve() terminates. Each iteration of the search loop lowers a      *)
(* measure that is never negative (a push needs a first visit or a         *)
(* strictly smaller g_cost), each iteration of the marking loop steps to a *)
(* tile of strictly smaller g_cost until it steps to the start tile.       *)
C7_Terminates ==
    [][/\ (pc = "search" /\ pc' = "search") =>
            (SearchRank' < SearchRank /\ SearchRank' >= 0)
       /\ (pc = "mark" /\ pc' = "mark") =>
            (map'[curr_idx'].g_cost < map[curr_idx].g_cost /\ map'[curr_idx'].g_cost >= 0)
       /\ (pc = "mark" /\ pc' = "done") => curr_idx' = start_idx]_vars

C7_Witness ==
    /\ pc = "done"
    /\ path_cost > 1000
    /\ curr_idx = start_idx
    /\ \E i \in Tiles(size) : AndPath(map[i].dir) > 0 /\ map[i].type = "empty"

HeapOrdered ==
    \A k \in 2 .. Len(pq) : ~priority_fn(map, pq[k \div 2], pq[k])

C9_PopsLowestF ==
    (pc = "search" /\ pq # << >>) =>
        \A t \in Frontier : f_cost(map[Top(pq)]) <= f_cost(map[t])

(* C10: when a path was found, path_cost is the cost of the marked path,   *)
(* walked from the start along the parent chain in the stored directions.  *)
C10_CostOfMarkedPath ==
    (Solved /\ path_cost # -1) => Walk(end_idx).cost = path_cost

====
